---- MODULE Spec2Model ----
(***************************************************************************)
(* Model of InvestorBriefingExtractor (src/InvestorBriefingExtractor-AI.py) *)
(* and of the pipeline main() drives: validate_data, then, when the batch  *)
(* is valid, process_briefings.                                            *)
(*                                                                         *)
(* Values.  A decoded field value is a Python str or a native number:      *)
(*   [t |-> "str", s |-> <<pieces>>, n |-> 0]   a string, as the sequence  *)
(*       of its lexical pieces (single characters for dates and numbers;   *)
(*       words, blanks and punctuation marks for a briefing text);         *)
(*   [t |-> "num", s |-> <<>>, n |-> k]         a native number k.         *)
(* A record is a function whose DOMAIN is the set of keys it carries.      *)
(* Floating-point quantities are exact rationals [num, den]; over the      *)
(* inputs drawn here IEEE rounding changes none of the comparisons made.   *)
(* A call's outcome is a record with an exc field: "none", or the name of  *)
(* the Python exception that left the call.                                *)
(***************************************************************************)
EXTENDS Integers, Sequences, FiniteSets, TLC

VARIABLES pc, data_str, data_format, is_valid, records, validation_report,
          error_messages, results, fault

vars == <<pc, data_str, data_format, is_valid, records, validation_report,
          error_messages, results, fault>>

\* ------------------------------------------------------------- values

Str(s) == [t |-> "str", s |-> s, n |-> 0]

Num(k) == [t |-> "num", s |-> <<>>, n |-> k]

\* Python None (the key_metrics of a result whose record supplied none)
None == [t |-> "none", s |-> <<>>, n |-> 0]

\* bool(value): a string is true when non-empty, a number when non-zero
Truthy(v) == IF v.t = "str" THEN v.s # <<>> ELSE IF v.t = "num" THEN v.n # 0 ELSE FALSE

\* `field in record and record[field]`
Provided(record, field) == field \in DOMAIN record /\ Truthy(record[field])

Rat(a, b) == [num |-> a, den |-> b]

RatMul(x, y) == Rat(x.num * y.num, x.den * y.den)

RatAdd(x, y) == Rat(x.num * y.den + y.num * x.den, x.den * y.den)

\* x > y, denominators positive
RatGT(x, y) == x.num * y.den > y.num * x.den

RatEQ(x, y) == x.num * y.den = y.num * x.den

\* ------------------------------------------------------------- __init__

expected_keywords ==
    <<"growth", "risk", "innovation", "market", "confidence",
      "investment", "strategic", "opportunity", "challenges", "expansion">>

Keywords == {expected_keywords[i] : i \in DOMAIN expected_keywords}

\* ------------------------------------------------------------- decoding

\* What validate_data appends to error_messages: the wording of the message
\* (kind), the field(s) it names and the 1-based record index; a message built
\* from an exception (f"ERROR: {str(e)}") names no field and no record.
Diagnostic(kind, fields, i) == [kind |-> kind, fields |-> fields, record |-> i]

ExceptionMessage(text) == Diagnostic(text, <<>>, 0)

Outcome(exc, msg, value) == [exc |-> exc, msg |-> msg, value |-> value]

\* _parse_json.  data_str is the payload as json.loads sees it: syntax says
\* whether it is a JSON document, shape is the top-level shape of the document
\* ("briefings": an object whose "briefings" member is a list; "list"; "object":
\* any other object; "number": a scalar) and items the list it holds.
\* The membership test of line 76 on a scalar raises TypeError, which the
\* except clause of line 82 does not catch.
ParseJson(payload) ==
    IF payload.syntax # "json"
    THEN Outcome("ValueError", "Invalid JSON format. Please check your data.", <<>>)
    ELSE IF payload.shape = "number"
    THEN Outcome("TypeError", "argument of type 'int' is not iterable", <<>>)
    ELSE IF payload.shape = "briefings" THEN Outcome("none", "", payload.items)
    ELSE IF payload.shape = "list" THEN Outcome("none", "", payload.items)
    ELSE Outcome("ValueError", "Invalid JSON structure. Expected a list of briefings or a 'briefings' field containing a list.", <<>>)

\* _parse_csv: csv.DictReader turns every data row into a record of strings
ParseCsv(payload) == Outcome("none", "", payload.items)

\* str.lower() of the data_format values drawn
LowerFormat(f) == IF f = "JSON" THEN "json" ELSE IF f = "CSV" THEN "csv" ELSE f

\* ------------------------------------------------------------- _is_valid_date

DigitSeq == <<"0", "1", "2", "3", "4", "5", "6", "7", "8", "9">>

IsDigit(c) == \E i \in DOMAIN DigitSeq : DigitSeq[i] = c

DigitVal(c) == (CHOOSE i \in DOMAIN DigitSeq : DigitSeq[i] = c) - 1

RECURSIVE DigitsValue(_)
\* the number a sequence of digits writes
DigitsValue(s) ==
    IF s = <<>> THEN 0
    ELSE DigitsValue(SubSeq(s, 1, Len(s) - 1)) * 10 + DigitVal(s[Len(s)])

\* re.match(r"^\d{4}-\d{2}-\d{2}$", date_str)
MatchesDatePattern(s) ==
    /\ Len(s) = 10
    /\ \A i \in {1, 2, 3, 4, 6, 7, 9, 10} : IsDigit(s[i])
    /\ s[5] = "-"
    /\ s[8] = "-"

IsLeap(y) == (y % 4 = 0 /\ y % 100 # 0) \/ y % 400 = 0

DaysInMonth(y, m) ==
    IF m = 2 THEN (IF IsLeap(y) THEN 29 ELSE 28)
    ELSE IF m \in {4, 6, 9, 11} THEN 30 ELSE 31

\* datetime.datetime.strptime(date_str, "%Y-%m-%d") raises no ValueError
IsCalendarDate(s) ==
    LET y == DigitsValue(SubSeq(s, 1, 4))
        m == DigitsValue(SubSeq(s, 6, 7))
        d == DigitsValue(SubSeq(s, 9, 10))
    IN  /\ y >= 1
        /\ m \in 1..12
        /\ d \in 1..DaysInMonth(y, m)

\* _is_valid_date: re.match raises TypeError on a value that is no string
IsValidDate(v) ==
    IF v.t # "str"
    THEN Outcome("TypeError", "expected string or bytes-like object", FALSE)
    ELSE IF ~MatchesDatePattern(v.s) THEN Outcome("none", "", FALSE)
    ELSE Outcome("none", "", IsCalendarDate(v.s))

\* ------------------------------------------------------------- float()

IsBlank(c) == c = " "

RECURSIVE LStrip(_)
LStrip(s) == IF s # <<>> /\ IsBlank(s[1]) THEN LStrip(Tail(s)) ELSE s

RECURSIVE RStrip(_)
RStrip(s) ==
    IF s # <<>> /\ IsBlank(s[Len(s)]) THEN RStrip(SubSeq(s, 1, Len(s) - 1)) ELSE s

\* float(value): a native number converts to itself; a string is stripped and
\* must then be an optional sign followed by digits (the strings drawn hold
\* digits, signs, blanks and letters only), else ValueError
Float(v) ==
    IF v.t = "num" THEN Outcome("none", "", v.n)
    ELSE LET body == RStrip(LStrip(v.s))
             signed == body # <<>> /\ body[1] \in {"-", "+"}
             digits == IF signed THEN Tail(body) ELSE body
         IN  IF digits # <<>> /\ \A i \in DOMAIN digits : IsDigit(digits[i])
             THEN Outcome("none", "",
                          IF signed /\ body[1] = "-"
                          THEN 0 - DigitsValue(digits) ELSE DigitsValue(digits))
             ELSE Outcome("ValueError", "could not convert string to float", 0)

\* ------------------------------------------------------------- validate_data

RequiredFields == <<"briefing_id", "date", "briefing_text">>

\* lines 38-41: the required fields that are absent or falsy, in field order
MissingFields(record) ==
    SelectSeq(RequiredFields, LAMBDA field : ~Provided(record, field))

\* lines 53-62: the key_metrics check of one record
KeyMetricsErrors(record, i) ==
    IF Provided(record, "key_metrics")
    THEN LET f == Float(record["key_metrics"])
         IN  IF f.exc = "ValueError"
             THEN <<Diagnostic("Invalid data type", <<"key_metrics">>, i)>>
             ELSE IF f.value <= 0
             THEN <<Diagnostic("Invalid value", <<"key_metrics">>, i)>>
             ELSE <<>>
    ELSE <<>>

\* lines 36-62: one iteration of the loop over the records; value is what the
\* iteration appends to error_messages.  A record with a missing field leaves
\* the iteration at the continue of line 46.
CheckRecord(record, i) ==
    LET missing_fields == MissingFields(record)
    IN  IF missing_fields # <<>>
        THEN Outcome("none", "",
                     <<Diagnostic("Missing required field(s)", missing_fields, i)>>)
        ELSE LET d == IsValidDate(record["date"])
             IN  IF d.exc # "none" THEN Outcome(d.exc, d.msg, <<>>)
                 ELSE Outcome("none", "",
                        (IF ~d.value
                         THEN <<Diagnostic("Invalid value", <<"date">>, i)>>
                         ELSE <<>>)
                        \o KeyMetricsErrors(record, i))

RECURSIVE ValidateRecords(_, _, _)
\* the loop of line 36 after the iteration on record i, whose outcome is c: an
\* exception leaves the loop, else the loop goes on with record i + 1
ValidateFrom(recs, i, errs, c) ==
    IF c.exc # "none" THEN Outcome(c.exc, c.msg, errs)
    ELSE ValidateRecords(recs, i + 1, errs \o c.value)

\* the loop of line 36, from record i on, errs being error_messages so far
ValidateRecords(recs, i, errs) ==
    IF i > Len(recs) THEN Outcome("none", "", errs)
    ELSE ValidateFrom(recs, i, errs, CheckRecord(recs[i], i))

\* ------------------------------------------------------------- _generate_validation_report

\* lines 131-137
KeyMetricsStatus(record) ==
    IF Provided(record, "key_metrics")
    THEN LET f == Float(record["key_metrics"])
         IN  IF f.exc = "ValueError" THEN "**invalid**"
             ELSE IF f.value > 0 THEN "**valid**" ELSE "**invalid**"
    ELSE "**not provided**"

\* lines 117-138: the four status lines of one record; line 123 calls
\* _is_valid_date on whatever value the date key carries
FieldChecks(record) ==
    LET d == IF "date" \in DOMAIN record THEN IsValidDate(record["date"])
             ELSE Outcome("none", "", FALSE)
    IN  IF d.exc # "none" THEN Outcome(d.exc, d.msg, <<>>)
        ELSE Outcome("none", "",
               [briefing_id |-> IF Provided(record, "briefing_id")
                                THEN "**present**" ELSE "**missing**",
                date |-> IF d.value THEN "**valid**" ELSE "**invalid**",
                briefing_text |-> IF Provided(record, "briefing_text")
                                  THEN "**present**" ELSE "**missing**",
                key_metrics |-> KeyMetricsStatus(record)])

\* line 141
ChecksPass(c) ==
    ~(\/ "**missing**" \in {c.briefing_id, c.briefing_text}
      \/ "**invalid**" \in {c.date, c.key_metrics})

RECURSIVE ReportRecords(_, _, _)
\* the loop of line 116 after the iteration on record i, whose outcome is c
ReportFrom(recs, i, checks, c) ==
    IF c.exc # "none" THEN Outcome(c.exc, c.msg, checks)
    ELSE ReportRecords(recs, i + 1, Append(checks, c.value))

\* the loop of line 116 from record i on, checks being the sections written
ReportRecords(recs, i, checks) ==
    IF i > Len(recs) THEN Outcome("none", "", checks)
    ELSE ReportFrom(recs, i, checks, FieldChecks(recs[i]))

\* A report: the Overview count, the "Field Checks per Record" sections, and the
\* Summary: its opening line and the errors it lists.
Report(total, checks, summary, listed) ==
    [total |-> total, checks |-> checks, summary |-> summary, listed |-> listed]

\* the report of an outcome that is an error message alone (lines 33 and 70)
ErrorReport(msg) == Report(0, <<>>, "ERROR", <<msg>>)

\* no report written (yet)
NoReport == Report(0, <<>>, "", <<>>)

\* lines 145-148
Summary(all_valid, errs) ==
    IF all_valid /\ errs = <<>> THEN "Data validation is successful!"
    ELSE "The following errors were found:"

\* lines 144-152, r being the outcome of the loop of line 116: the Summary
\* lists the errors unless it opens with the success line
ReportOf(recs, errs, r) ==
    IF r.exc # "none" THEN Outcome(r.exc, r.msg, NoReport)
    ELSE LET all_valid == \A i \in DOMAIN r.value : ChecksPass(r.value[i])
         IN  Outcome("none", "",
               Report(Len(recs), r.value, Summary(all_valid, errs),
                      IF all_valid /\ errs = <<>> THEN <<>> ELSE errs))

GenerateValidationReport(recs, errs) == ReportOf(recs, errs, ReportRecords(recs, 1, <<>>))

\* ------------------------------------------------------------- validate_data, whole

Returned(valid, recs, report, errs) ==
    [is_valid |-> valid, records |-> recs, validation_report |-> report,
     error_messages |-> errs]

\* line 68-70: every exception raised inside the try block
Failure(text) ==
    Returned(FALSE, <<>>, ErrorReport(ExceptionMessage(text)), <<ExceptionMessage(text)>>)

InvalidFormatMessage ==
    ExceptionMessage("Invalid data format. Please provide data in CSV or JSON format.")

\* line 33
UnsupportedFormat == Returned(FALSE, <<>>, ErrorReport(InvalidFormatMessage), <<>>)

\* line 66
IsValidOf(errs) == Len(errs) = 0

\* lines 65-66, g being the outcome of _generate_validation_report
ReturnReport(recs, errs, g) ==
    IF g.exc # "none" THEN Failure(g.msg)
    ELSE Returned(IsValidOf(errs), recs, g.value, errs)

\* lines 36-66 after the loop, whose outcome is v
ReportValidated(recs, v) ==
    IF v.exc # "none" THEN Failure(v.msg)
    ELSE ReturnReport(recs, v.value, GenerateValidationReport(recs, v.value))

\* lines 36-66, on the decoded records
ValidateDecoded(recs) == ReportValidated(recs, ValidateRecords(recs, 1, <<>>))

\* lines 35-66, p being the outcome of the parser
ValidateParsed(p) == IF p.exc # "none" THEN Failure(p.msg) ELSE ValidateDecoded(p.value)

\* validate_data(data_str, data_format)
ValidateData(payload, format) ==
    IF LowerFormat(format) = "json" THEN ValidateParsed(ParseJson(payload))
    ELSE IF LowerFormat(format) = "csv" THEN ValidateParsed(ParseCsv(payload))
    ELSE UnsupportedFormat

\* ------------------------------------------------------------- _process_single_briefing

\* A briefing text is the sequence of its pieces: a blank, a punctuation mark,
\* or a maximal piece of letters.  The letter pieces drawn are the vocabulary
\* words in some case and OtherWords, none of which joins with a neighbour
\* into a vocabulary word.
OtherWords == {"the", "ful"}

\* str.lower() of the pieces drawn
Lower(p) ==
    IF p = "RISK" THEN "risk" ELSE IF p = "Growth" THEN "growth"
    ELSE IF p = "Market" THEN "market" ELSE p

\* whitespace, where str.split() cuts
IsSpace(p) == p \in {" ", "\t", "\n"}

\* a piece of \w characters: \b lies between it and a piece that is none
IsWordPiece(p) == Lower(p) \in Keywords \cup OtherWords

\* line 189: len(briefing_text.split()), the number of maximal blank-free runs
WordCount(text) ==
    Cardinality({i \in DOMAIN text :
                    ~IsSpace(text[i]) /\ (i = 1 \/ IsSpace(text[i - 1]))})

\* lines 194-196: matches of \bkeyword\b in briefing_text.lower()
KeywordMatches(keyword, text) ==
    Cardinality({i \in DOMAIN text :
                    /\ Lower(text[i]) = keyword
                    /\ (i = 1 \/ ~IsWordPiece(text[i - 1]))
                    /\ (i = Len(text) \/ ~IsWordPiece(text[i + 1]))})

\* lines 190-197
KeywordCounts(text) == [k \in Keywords |-> KeywordMatches(k, text)]

RECURSIVE SumCounts(_, _)
\* sum(keyword_counts.values()) over the first n vocabulary words
SumCounts(keyword_counts, n) ==
    IF n = 0 THEN 0
    ELSE SumCounts(keyword_counts, n - 1) + keyword_counts[expected_keywords[n]]

\* the / of Python: ZeroDivisionError on a zero divisor
TrueDiv(a, b) ==
    IF b = 0 THEN Outcome("ZeroDivisionError", "division by zero", Rat(0, 1))
    ELSE Outcome("none", "", Rat(a, b))

\* line 203 with its guard on word_count dropped
NormalizedNoGuard(total, word_count) == TrueDiv(total, word_count)

\* line 203
Normalized(total, word_count) ==
    IF word_count > 0 THEN TrueDiv(total, word_count) ELSE Outcome("none", "", Rat(0, 1))

\* line 213 with "or" for "and"
IsHighEither(composite, normalized) ==
    RatGT(composite, Rat(30, 1)) \/ RatGT(normalized, Rat(2, 100))

\* line 213
IsHigh(composite, normalized) ==
    RatGT(composite, Rat(30, 1)) /\ RatGT(normalized, Rat(2, 100))

\* lines 206-207
DiversityScore(unique_keywords_found) ==
    RatMul(Rat(unique_keywords_found, Len(expected_keywords)), Rat(100, 1))

\* line 210
CompositeScore(normalized_keyword_score, diversity_score) ==
    RatAdd(RatMul(normalized_keyword_score, Rat(50, 1)), RatMul(diversity_score, Rat(1, 2)))

\* lines 206-218 and the score entries of lines 227-235, from the counts and
\* the normalized score
Classified(keyword_counts, word_count, total_keyword_frequency, normalized_keyword_score) ==
    LET unique_keywords_found == Cardinality({k \in Keywords : keyword_counts[k] > 0})
        diversity_score == DiversityScore(unique_keywords_found)
        composite_thematic_score == CompositeScore(normalized_keyword_score, diversity_score)
        high == IsHigh(composite_thematic_score, normalized_keyword_score)
    IN  [keyword_counts |-> keyword_counts,
         total_keyword_frequency |-> total_keyword_frequency,
         word_count |-> word_count,
         normalized_keyword_score |-> normalized_keyword_score,
         unique_keywords_found |-> unique_keywords_found,
         diversity_score |-> diversity_score,
         composite_thematic_score |-> composite_thematic_score,
         thematic_intensity |-> IF high THEN "High" ELSE "Moderate",
         recommendation |-> IF high
                            THEN "Focus on strategic growth and risk mitigation."
                            ELSE "Review the investor briefing for additional insights."]

\* lines 203-218, n being the outcome of the division of line 203
ScoreNormalized(keyword_counts, word_count, total_keyword_frequency, n) ==
    IF n.exc # "none" THEN Outcome(n.exc, n.msg, <<>>)
    ELSE Outcome("none", "",
                 Classified(keyword_counts, word_count, total_keyword_frequency, n.value))

\* lines 200-218, from the total
ScoreTotal(keyword_counts, word_count, total_keyword_frequency) ==
    ScoreNormalized(keyword_counts, word_count, total_keyword_frequency,
                    Normalized(total_keyword_frequency, word_count))

\* lines 199-218: the scores and the classification, from the counts
ScoreCounts(keyword_counts, word_count) ==
    ScoreTotal(keyword_counts, word_count,
               SumCounts(keyword_counts, Len(expected_keywords)))

\* lines 220-236: the result dictionary (the texts drawn are shorter than 100
\* characters, so the snippet is the text)
Result(record, key_metrics, avg_key_metric, scores) ==
    [briefing_id |-> record["briefing_id"],
     date |-> record["date"],
     briefing_text_snippet |-> record["briefing_text"],
     key_metrics |-> key_metrics,
     avg_key_metric |-> avg_key_metric,
     keyword_counts |-> scores.keyword_counts,
     total_keyword_frequency |-> scores.total_keyword_frequency,
     word_count |-> scores.word_count,
     normalized_keyword_score |-> scores.normalized_keyword_score,
     unique_keywords_found |-> scores.unique_keywords_found,
     diversity_score |-> scores.diversity_score,
     composite_thematic_score |-> scores.composite_thematic_score,
     thematic_intensity |-> scores.thematic_intensity,
     recommendation |-> scores.recommendation]

\* lines 220-238, scored being the outcome of lines 188-218
ResultOf(record, key_metrics, avg_key_metric, scored) ==
    IF scored.exc # "none" THEN Outcome(scored.exc, scored.msg, <<>>)
    ELSE Outcome("none", "", Result(record, key_metrics, avg_key_metric, scored.value))

\* lines 186-238, f being the outcome of the float of line 186; line 189
\* raises AttributeError on a briefing_text that is no string
ProcessWithMetric(record, avg_key_metric, f) ==
    IF f.exc # "none" THEN Outcome(f.exc, f.msg, <<>>)
    ELSE IF record["briefing_text"].t # "str"
    THEN Outcome("AttributeError", "'int' object has no attribute 'split'", <<>>)
    ELSE ResultOf(record,
                  IF Provided(record, "key_metrics") THEN Num(f.value) ELSE None,
                  avg_key_metric,
                  ScoreCounts(KeywordCounts(record["briefing_text"].s),
                              WordCount(record["briefing_text"].s)))

\* _process_single_briefing(record, avg_key_metric); lines 183-185 raise
\* KeyError on an absent key
ProcessSingleBriefing(record, avg_key_metric) ==
    IF \E i \in DOMAIN RequiredFields : RequiredFields[i] \notin DOMAIN record
    THEN Outcome("KeyError", "", <<>>)
    ELSE ProcessWithMetric(record, avg_key_metric,
                           IF Provided(record, "key_metrics")
                           THEN Float(record["key_metrics"])
                           ELSE Outcome("none", "", 0))

\* ------------------------------------------------------------- process_briefings

\* line 165
RecordsWithKeyMetrics(recs) ==
    SelectSeq(recs, LAMBDA r : Provided(r, "key_metrics"))

RECURSIVE SumKeyMetrics(_, _)
\* line 169, over the first n of the records that carry key_metrics
SumKeyMetrics(with, n) ==
    IF n = 0 THEN Outcome("none", "", 0)
    ELSE LET rest == SumKeyMetrics(with, n - 1)
             f == Float(with[n]["key_metrics"])
         IN  IF rest.exc # "none" THEN rest
             ELSE IF f.exc # "none" THEN Outcome(f.exc, f.msg, 0)
             ELSE Outcome("none", "", rest.value + f.value)

\* lines 167-170
AvgKeyMetric(recs) ==
    LET with == RecordsWithKeyMetrics(recs)
        sum == SumKeyMetrics(with, Len(with))
    IN  IF with = <<>> THEN Outcome("none", "", Rat(0, 1))
        ELSE IF sum.exc # "none" THEN sum
        ELSE Outcome("none", "", Rat(sum.value, Len(with)))

RECURSIVE ProcessRecords(_, _, _, _)
\* the loop of lines 172-175 after the iteration on record i, whose outcome is r
ProcessFrom(recs, i, avg_key_metric, done, r) ==
    IF r.exc # "none" THEN Outcome(r.exc, r.msg, <<>>)
    ELSE ProcessRecords(recs, i + 1, avg_key_metric, Append(done, r.value))

\* the loop of lines 172-175 from record i on
ProcessRecords(recs, i, avg_key_metric, done) ==
    IF i > Len(recs) THEN Outcome("none", "", done)
    ELSE ProcessFrom(recs, i, avg_key_metric, done,
                     ProcessSingleBriefing(recs[i], avg_key_metric))

\* lines 172-179, avg being the outcome of lines 165-170
ProcessWithAvg(recs, avg) ==
    IF avg.exc # "none" THEN Outcome(avg.exc, avg.msg, <<>>)
    ELSE ProcessRecords(recs, 1, avg.value, <<>>)

\* process_briefings(records): value is the list of results the final report
\* renders, one "Briefing" section each, in list order
ProcessBriefings(recs) == ProcessWithAvg(recs, AvgKeyMetric(recs))

\* ------------------------------------------------------------- inputs

MaxRecords == 2

MaxBatch == 3

MaxCount == 2

\* the counts of the vocabulary words in a text: "growth" up to MaxCount times,
\* every other word at most once
CountFunctions ==
    {[k \in Keywords |-> IF k = "growth" THEN g ELSE IF k \in present THEN 1 ELSE 0] :
        g \in 0..MaxCount, present \in SUBSET (Keywords \ {"growth"})}

\* the numbers of words of a text
WordCounts == {0, 1, 2, 3, 5, 10, 20, 50, 100, 150, 299, 300, 301}

\* a key the record does not carry
Absent == [t |-> "absent", s |-> <<>>, n |-> 0]

\* the record carrying the given values under the keys that are not Absent
MkRecord(b, d, t, k) ==
    LET all == [briefing_id |-> b, date |-> d, briefing_text |-> t, key_metrics |-> k]
        keys == {f \in DOMAIN all : all[f].t # "absent"}
    IN  [f \in keys |-> all[f]]

GoodId == Str(<<"B", "3", "1", "1">>)

GoodDate == Str(<<"2", "0", "2", "3", "-", "0", "7", "-", "1", "1">>)

\* no thirteenth month
BadCalendarDate == Str(<<"2", "0", "2", "3", "-", "1", "3", "-", "0", "1">>)

LeapDay == Str(<<"2", "0", "2", "4", "-", "0", "2", "-", "2", "9">>)

NoLeapDay == Str(<<"2", "0", "2", "3", "-", "0", "2", "-", "2", "9">>)

\* day first
BadShapeDate == Str(<<"0", "7", "-", "1", "1", "-", "2", "0", "2", "3">>)

\* "growth growth RISK"
ExampleText == Str(<<"growth", " ", "growth", " ", "RISK">>)

\* "Market-risk growthful the"
HyphenText == Str(<<"Market", "-", "risk", " ", "growth", "ful", " ", "the">>)

\* "growth-risk": one whitespace-delimited token holding two keywords
JoinedText == Str(<<"growth", "-", "risk">>)

BlankText == Str(<<" ">>)

IdValues == {Absent, Str(<<>>), GoodId}

DateValues ==
    {Absent, Str(<<>>), GoodDate, BadCalendarDate, BadShapeDate, LeapDay, NoLeapDay,
     Num(20230711), Num(0)}

TextValues ==
    {Absent, Str(<<>>), BlankText, ExampleText, HyphenText, JoinedText, Num(42)}

KeyMetricsValues ==
    {Absent, Str(<<>>), Str(<<"a", "b", "c">>), Str(<<"-", "5">>), Str(<<"0">>),
     Str(<<" ", "9", "4">>), Num(0), Num(96), Num(0 - 5)}

\* every combination of field values, for a payload of one record
AnyRecords ==
    {MkRecord(b, d, t, k) : b \in IdValues, d \in DateValues,
                            t \in TextValues, k \in KeyMetricsValues}

\* the records of a payload of up to MaxRecords records
MixedRecords ==
    {MkRecord(b, d, t, k) : b \in {Absent, GoodId}, d \in {GoodDate, BadCalendarDate},
                            t \in {BlankText, ExampleText, Num(42)},
                            k \in {Absent, Num(96), Str(<<"a", "b", "c">>)}}

\* well-formed records that differ in key_metrics, for a payload of up to
\* MaxBatch records
MetricRecords ==
    {MkRecord(GoodId, GoodDate, ExampleText, k) :
        k \in {Absent, Str(<<>>), Num(0), Num(96), Num(94), Num(92), Str(<<"9", "4">>)}}

SeqsUpTo(S, n) == UNION {[1..m -> S] : m \in 0..n}

RecordLists ==
    SeqsUpTo(MixedRecords, MaxRecords)
        \cup {<<r>> : r \in AnyRecords}
        \cup SeqsUpTo(MetricRecords, MaxBatch)

Payload(syntax, shape, items) == [syntax |-> syntax, shape |-> shape, items |-> items]

\* csv.DictReader yields strings only
RowLists ==
    {l \in RecordLists : \A i \in DOMAIN l : \A f \in DOMAIN l[i] : l[i][f].t = "str"}

\* a payload and the data_format it is submitted with
Submissions ==
    {<<Payload("json", shape, l), "json">> : shape \in {"briefings", "list"}, l \in RecordLists}
        \cup {<<Payload("json", shape, <<>>), "JSON">> : shape \in {"object", "number"}}
        \cup {<<Payload("garbage", "none", <<>>), f>> : f \in {"json", "csv", "xml"}}
        \cup {<<Payload("csv", "rows", l), "csv">> : l \in RowLists}
        \cup {<<Payload("json", "list", l), "xml">> : l \in SeqsUpTo(MixedRecords, 1)}

\* ------------------------------------------------------------- main

Init ==
    /\ pc = "start"
    /\ \E sub \in Submissions : data_str = sub[1] /\ data_format = sub[2]
    /\ is_valid = FALSE
    /\ records = <<>>
    /\ validation_report = NoReport
    /\ error_messages = <<>>
    /\ results = <<>>
    /\ fault = "none"

\* line 385: is_valid, records, validation_report, errors = validate_data(...)
Validate ==
    /\ pc = "start"
    /\ \E r \in {ValidateData(data_str, data_format)} :
           /\ is_valid' = r.is_valid
           /\ records' = r.records
           /\ validation_report' = r.validation_report
           /\ error_messages' = r.error_messages
    /\ pc' = "validated"
    /\ UNCHANGED <<data_str, data_format, results, fault>>

\* line 388 with the test on is_valid dropped
ScoresUngated(valid) == TRUE

\* line 388: if is_valid
ScoresWhen(valid) == valid

\* lines 388-390, the batch being valid: process_briefings(records); an
\* exception it raises leaves main with nothing scored
Score ==
    /\ pc = "validated"
    /\ ScoresWhen(is_valid)
    /\ \E o \in {ProcessBriefings(records)} :
           /\ results' = o.value
           /\ fault' = o.exc
    /\ pc' = "scored"
    /\ UNCHANGED <<data_str, data_format, is_valid, records, validation_report,
                   error_messages>>

\* line 388, the batch being invalid: main ends without scoring
Halt ==
    /\ pc = "validated"
    /\ ~ScoresWhen(is_valid)
    /\ pc' = "halted"
    /\ UNCHANGED <<data_str, data_format, is_valid, records, validation_report,
                   error_messages, results, fault>>

Next == Validate \/ Score \/ Halt

Spec == Init /\ [][Next]_vars

\* ------------------------------------------------------------- scoring alone

\* lines 199-218 applied to the counts of some text: a text of no word holds
\* no vocabulary word, every other combination of counts is the counts of a
\* text (words joined by punctuation count once at line 189)
InitCounts ==
    /\ pc = "counts"
    /\ data_str = Payload("garbage", "none", <<>>)
    /\ data_format = "json"
    /\ is_valid = FALSE
    /\ records = <<>>
    /\ validation_report = NoReport
    /\ error_messages = <<>>
    /\ results = <<>>
    /\ fault = "none"

ScoreSomeCounts ==
    /\ pc = "counts"
    /\ \E keyword_counts \in CountFunctions, word_count \in WordCounts :
          /\ word_count > 0 \/ \A k \in Keywords : keyword_counts[k] = 0
          /\ \E o \in {ScoreCounts(keyword_counts, word_count)} :
                /\ results' = (IF o.exc = "none" THEN <<o.value>> ELSE <<>>)
                /\ fault' = o.exc
    /\ pc' = "classified"
    /\ UNCHANGED <<data_str, data_format, is_valid, records, validation_report,
                   error_messages>>

NextCounts == ScoreSomeCounts

SpecCounts == InitCounts /\ [][NextCounts]_vars

\* ------------------------------------------------------------- properties

\* validate_data has returned
HasReturned == pc \in {"validated", "scored", "halted"}

\* error_messages holds a diagnostic for record i that names the field
Names(i, field) ==
    \E j \in DOMAIN error_messages :
        /\ error_messages[j].record = i
        /\ \E k \in DOMAIN error_messages[j].fields : error_messages[j].fields[k] = field

\* error_messages holds a diagnostic for record i
Flagged(i) == \E j \in DOMAIN error_messages : error_messages[j].record = i

\* the date of the record is a string that is a calendar date written YYYY-MM-DD
HasValidDate(r) ==
    /\ "date" \in DOMAIN r
    /\ r["date"].t = "str"
    /\ MatchesDatePattern(r["date"].s)
    /\ IsCalendarDate(r["date"].s)

\* the record carries a date that is a non-empty string and no valid date
HasInvalidDate(r) ==
    /\ "date" \in DOMAIN r
    /\ r["date"].t = "str"
    /\ r["date"].s # <<>>
    /\ ~(MatchesDatePattern(r["date"].s) /\ IsCalendarDate(r["date"].s))

\* the record carries a key_metrics that is not the empty string
SuppliesKeyMetrics(r) == "key_metrics" \in DOMAIN r /\ r["key_metrics"] # Str(<<>>)

\* the diagnostics the key_metrics of record i calls for
ExpectedKeyMetricsDiagnostics(r, i) ==
    IF ~SuppliesKeyMetrics(r) THEN <<>>
    ELSE IF Float(r["key_metrics"]).exc # "none"
    THEN <<Diagnostic("Invalid data type", <<"key_metrics">>, i)>>
    ELSE IF Float(r["key_metrics"]).value > 0 THEN <<>>
    ELSE <<Diagnostic("Invalid value", <<"key_metrics">>, i)>>

\* C1: whenever validate_data has returned, is_valid is true if and only if
\* the returned diagnostic list is empty, whatever the payload and data_format.
C1_ValidIffNoDiagnostics ==
    HasReturned => (is_valid <=> error_messages = <<>>)

\* C2: a missing briefing_id or briefing_text does not suppress the other
\* checks of the record: an invalid date or an invalid key_metrics of such a
\* record still gets its diagnostic for that record index.
C2_FieldChecksIndependent ==
    HasReturned =>
        \A i \in DOMAIN records :
            (~Provided(records[i], "briefing_id") \/ ~Provided(records[i], "briefing_text"))
            => /\ Names(i, "briefing_id") \/ Names(i, "briefing_text")
               /\ HasInvalidDate(records[i]) => Names(i, "date")
               /\ ExpectedKeyMetricsDiagnostics(records[i], i) # <<>>
                      => Names(i, "key_metrics")

\* C3: a record with the three required fields and a valid date gets exactly
\* the key_metrics diagnostics its value calls for: none when absent, empty or
\* a number > 0, "Invalid data type" when no number, "Invalid value" when a
\* number <= 0, native or written as a string.
C3_KeyMetricsDiagnostics ==
    HasReturned =>
        \A i \in DOMAIN records :
            (/\ \A k \in DOMAIN RequiredFields : Provided(records[i], RequiredFields[k])
             /\ HasValidDate(records[i]))
            => SelectSeq(error_messages, LAMBDA e : e.record = i)
                   = ExpectedKeyMetricsDiagnostics(records[i], i)

\* C4: the Scorer runs only on a batch validate_data found valid: once it has
\* run the batch is valid and free of diagnostics, and a batch with a
\* diagnostic or a decode failure is never scored, no record of it.
C4_ScoredOnlyWhenValid ==
    /\ pc = "scored" => is_valid /\ error_messages = <<>>
    /\ (HasReturned /\ (~is_valid \/ error_messages # <<>>))
           => pc # "scored" /\ results = <<>> /\ fault = "none"

\* a batch of two records, one clean and one with a diagnostic, ended unscored
C4_Witness ==
    /\ pc = "halted"
    /\ Len(records) = 2
    /\ \E i, j \in DOMAIN records : ~Flagged(i) /\ Flagged(j)
    /\ results = <<>>

\* C5: on a batch validate_data found valid process_briefings raises nothing
\* and yields one result per record, in input order; every such record has a
\* non-empty string as briefing_text and a key_metrics that is absent, empty
\* or a number.
C5_ValidBatchScores ==
    pc = "scored" =>
        /\ fault = "none"
        /\ Len(results) = Len(records)
        /\ \A i \in DOMAIN records :
              /\ results[i].briefing_id = records[i]["briefing_id"]
              /\ results[i].briefing_text_snippet = records[i]["briefing_text"]
              /\ records[i]["briefing_text"].t = "str"
              /\ records[i]["briefing_text"].s # <<>>
              /\ SuppliesKeyMetrics(records[i]) => Float(records[i]["key_metrics"]).exc = "none"

\* the payload decodes to a list of records under the data_format given
Decodes ==
    \/ /\ LowerFormat(data_format) = "json"
       /\ data_str.syntax = "json"
       /\ data_str.shape \in {"briefings", "list"}
    \/ LowerFormat(data_format) = "csv"

\* C6: under a supported data_format, a payload that does not decode to a
\* record list gives is_valid false, no record and a single message; a payload
\* that decodes gives back its record list, whatever the field values, with
\* the per-record report and per-record diagnostics only.
C6_DecodeErrorOrDiagnostics ==
    (HasReturned /\ LowerFormat(data_format) \in {"json", "csv"}) =>
        IF Decodes
        THEN /\ records = data_str.items
             /\ validation_report.total = Len(data_str.items)
             /\ Len(validation_report.checks) = Len(data_str.items)
             /\ \A j \in DOMAIN error_messages :
                   /\ error_messages[j].record \in DOMAIN data_str.items
                   /\ error_messages[j].kind \in
                          {"Missing required field(s)", "Invalid value", "Invalid data type"}
        ELSE /\ ~is_valid
             /\ records = <<>>
             /\ Len(error_messages) = 1
             /\ error_messages[1].record = 0

RECURSIVE TotalOver(_, _)
\* the sum of the counts of the vocabulary words in S
TotalOver(counts, S) ==
    IF S = {} THEN 0
    ELSE LET k == CHOOSE x \in S : TRUE
         IN  counts[k] + TotalOver(counts, S \ {k})

\* C7: with total the sum of the ten counts, unique the number of words counted
\* at least once and the scores as defined from them, a result is "High" with
\* the strategic-growth recommendation exactly when composite > 30 and
\* normalized > 0.02 both hold, and "Moderate" with the review recommendation
\* otherwise (stated over integers: composite = 50 total/words + 5 unique).
C7_HighIffBothThresholds ==
    pc = "classified" =>
        \A i \in DOMAIN results :
            LET r == results[i]
                total == TotalOver(r.keyword_counts, Keywords)
                unique == Cardinality({k \in Keywords : r.keyword_counts[k] >= 1})
                words == r.word_count
                high == /\ words > 0
                        /\ 50 * total + 5 * unique * words > 30 * words
                        /\ 100 * total > 2 * words
            IN  /\ r.total_keyword_frequency = total
                /\ r.unique_keywords_found = unique
                /\ RatEQ(r.normalized_keyword_score,
                         IF words = 0 THEN Rat(0, 1) ELSE Rat(total, words))
                /\ RatEQ(r.diversity_score, Rat(10 * unique, 1))
                /\ RatEQ(r.composite_thematic_score,
                         IF words = 0 THEN Rat(5 * unique, 1)
                         ELSE Rat(50 * total + 5 * unique * words, words))
                /\ high => /\ r.thematic_intensity = "High"
                           /\ r.recommendation = "Focus on strategic growth and risk mitigation."
                /\ ~high => /\ r.thematic_intensity = "Moderate"
                            /\ r.recommendation = "Review the investor briefing for additional insights."

\* a composite above 30 with a normalized score of at most 0.02 was classified
C7_Witness ==
    /\ pc = "classified"
    /\ \E i \in DOMAIN results :
          /\ RatGT(results[i].composite_thematic_score, Rat(30, 1))
          /\ ~RatGT(results[i].normalized_keyword_score, Rat(2, 100))
          /\ results[i].thematic_intensity = "Moderate"

RECURSIVE SumOfSupplied(_)
\* the sum of the key_metrics of the records whose indices are in S
SumOfSupplied(S) ==
    IF S = {} THEN 0
    ELSE LET i == CHOOSE x \in S : TRUE
         IN  Float(records[i]["key_metrics"]).value + SumOfSupplied(S \ {i})

\* C8: every result of a scored batch carries the mean of key_metrics over
\* exactly the records that supplied one, and 0 when none did.
C8_AvgIsMeanOfSupplied ==
    (pc = "scored" /\ fault = "none") =>
        LET supplied == {i \in DOMAIN records : SuppliesKeyMetrics(records[i])}
        IN  \A i \in DOMAIN results :
                RatEQ(results[i].avg_key_metric,
                      IF supplied = {} THEN Rat(0, 1)
                      ELSE Rat(SumOfSupplied(supplied), Cardinality(supplied)))

\* the text is a string of no word: blanks only
HasNoWord(v) == v.t = "str" /\ \A j \in DOMAIN v.s : v.s[j] \in {" ", "\t", "\n"}

\* C9: scoring a record whose briefing_text holds no word raises no division
\* by zero and gives word_count 0, normalized_keyword_score 0 and "Moderate".
C9_NoWordNoDivision ==
    pc = "scored" =>
        /\ fault # "ZeroDivisionError"
        /\ \A i \in DOMAIN results :
              HasNoWord(records[i]["briefing_text"])
              => /\ results[i].word_count = 0
                 /\ results[i].normalized_keyword_score.num = 0
                 /\ results[i].thematic_intensity = "Moderate"

\* a validated record whose text is blank was scored
C9_Witness ==
    /\ pc = "scored"
    /\ fault = "none"
    /\ \E i \in DOMAIN results :
          /\ records[i]["briefing_text"].s # <<>>
          /\ HasNoWord(records[i]["briefing_text"])
          /\ results[i].thematic_intensity = "Moderate"

\* C10: a report that was generated agrees with the result: its Summary opens
\* with the success line exactly when is_valid is true, and it marks a field of
\* record i missing or invalid exactly when a diagnostic names that field for
\* record i.
C10_ReportAgreesWithDiagnostics ==
    (HasReturned /\ validation_report.summary \notin {"", "ERROR"}) =>
        /\ validation_report.summary = "Data validation is successful!" <=> is_valid
        /\ \A i \in DOMAIN validation_report.checks :
              LET c == validation_report.checks[i]
              IN  /\ c.briefing_id = "**missing**" <=> Names(i, "briefing_id")
                  /\ c.date = "**invalid**" <=> Names(i, "date")
                  /\ c.briefing_text = "**missing**" <=> Names(i, "briefing_text")
                  /\ c.key_metrics = "**invalid**" <=> Names(i, "key_metrics")

\* C11: the normalized keyword score is a density: in every result the total
\* keyword frequency (word-boundary matches) is at most the word count
\* (whitespace-delimited tokens), so the normalized keyword score lies between
\* 0 and 1, also for keywords next to punctuation or joined by a hyphen.
C11_ScoreIsDensity ==
    (pc = "scored" /\ fault = "none") =>
        \A i \in DOMAIN results :
            /\ results[i].total_keyword_frequency <= results[i].word_count
            /\ ~RatGT(Rat(0, 1), results[i].normalized_keyword_score)
            /\ ~RatGT(results[i].normalized_keyword_score, Rat(1, 1))

====
